---- MODULE Spec2Model ----
(***************************************************************************)
(* Root-cause inference engine (LogicalRCA) of antigravity-ops-agent.      *)
(*                                                                         *)
(* Conventions                                                             *)
(*   - a text (alarm message, joined evidence) is a sequence of tokens,    *)
(*     the blank-separated pieces of the Python string; `x in text` is     *)
(*     modelled by WordIn / WordAtStart / WordAtEnd, which say which of    *)
(*     the searched words a token contains;                                *)
(*   - a probability is an integer number of hundredths (0.9 is 90);       *)
(*   - Python's None is the string NoneVal.                                *)
(***************************************************************************)
EXTENDS Integers, Sequences, FiniteSets, TLC

\* ------------------------------------------------------------------ bounds
MaxAlarms == 3

MaxRepeatAlarms == 1

\* Alarms of one batch of outage and power-supply messages.
MaxOutageAlarms == 2

\* Alarms of one batch of an engine that has an API key.
MaxKeyedAlarms == 3

\* Alarms of a batch that is analysed in two orders of arrival.
MaxPermAlarms == 3

\* Nodes of a topology handed to validate_topology.
MaxNodes == 3

\* Items of the list handed to render_incident_table.
MaxItems == 2

\* The largest value of the parameter retries of generate_content_with_retry.
MaxRetries == 3

\* ------------------------------------------------------------- vocabulary
NoneVal == "None"

Mask == "********"

DeviceIds == {"AP_01", "AP_02", "L2_SW_01"}

\* Rank of a device id in Python's string order.
DevRank == [d \in DeviceIds |->
              CASE d = "AP_01" -> 1 [] d = "AP_02" -> 2 [] d = "L2_SW_01" -> 3]

MsgUnreachable == <<"Unreachable">>

MsgDualLoss == <<"Power", "Supply:", "Dual", "Loss", "(Device", "Down)">>

MsgPsuFailed == <<"Power", "Supply", "1", "Failed">>

MsgConnLost == <<"Connection", "Lost">>

Messages == {MsgUnreachable, MsgDualLoss, MsgPsuFailed, MsgConnLost}

\* Messages with the other texts of rule (A) and rule (B).
MsgThermal == <<"Thermal", "Shutdown">>

MsgDeviceDown == <<"Device", "Down">>

MsgPsuFail == <<"PSU", "Fail">>

OutageMessages == {MsgThermal, MsgDeviceDown, MsgDualLoss, MsgPsuFail, MsgPsuFailed}

\* Word w occurs somewhere inside token tok (w one of the words the engine
\* searches for).
WordIn(tok, w) ==
    \/ tok = w
    \/ tok = "Supply:" /\ w = "Supply"
    \/ tok = "(Device" /\ w = "Device"
    \/ tok = "Down)" /\ w = "Down"
    \/ tok = "Failed" /\ w = "Fail"
    \/ tok = "encrypted-password" /\ w = "password"

\* Token tok starts with word w.
WordAtStart(tok, w) ==
    \/ tok = w
    \/ tok = "Supply:" /\ w = "Supply"
    \/ tok = "Down)" /\ w = "Down"
    \/ tok = "Failed" /\ w = "Fail"

\* Token tok ends with word w.
WordAtEnd(tok, w) ==
    \/ tok = w
    \/ tok = "(Device" /\ w = "Device"
    \/ tok = "encrypted-password" /\ w = "password"

\* `w in text` for a one-word w.
Has1(text, w) == \E i \in 1..Len(text) : WordIn(text[i], w)

\* `"w1 w2" in text` for a two-word needle.
Has2(text, w1, w2) ==
    \E i \in 1..(Len(text) - 1) :
        WordAtEnd(text[i], w1) /\ WordAtStart(text[i + 1], w2)

\* sep.join(texts): the texts' tokens, with the tokens of sep between them.
RECURSIVE Join(_, _)
Join(sep, texts) ==
    IF texts = <<>> THEN <<>>
    ELSE IF Len(texts) = 1 THEN texts[1]
    ELSE texts[1] \o sep \o Join(sep, Tail(texts))


\* --------------------------------------------------------------- sanitizer
IsDigit(tok) == tok \in {"0", "1", "2", "3", "4", "5", "6", "7", "8", "9"}

IsQuoted(tok) == tok \in {"\"cisco\""}

\* re.sub(r'(encrypted-password\s+)"[^"]+"', r'\1"********"', text)
RECURSIVE SubEncrypted(_)
SubEncrypted(text) ==
    IF Len(text) < 2 THEN text
    ELSE IF WordAtEnd(text[1], "encrypted-password") /\ IsQuoted(text[2])
         THEN <<text[1], "\"********\"">> \o SubEncrypted(SubSeq(text, 3, Len(text)))
         ELSE <<text[1]>> \o SubEncrypted(Tail(text))

\* re.sub(r"(password|secret)\s+(\d)\s+\S+", r"\1 \2 ********", text)
RECURSIVE SubPassword(_)
SubPassword(text) ==
    IF Len(text) < 3 THEN text
    ELSE IF (WordAtEnd(text[1], "password") \/ WordAtEnd(text[1], "secret")) /\ IsDigit(text[2])
         THEN <<text[1], text[2], Mask>> \o SubPassword(SubSeq(text, 4, Len(text)))
         ELSE <<text[1]>> \o SubPassword(Tail(text))

\* re.sub(r"(username\s+\S+\s+secret)\s+\d\s+\S+", r"\1 5 ********", text)
RECURSIVE SubUsername(_)
SubUsername(text) ==
    IF Len(text) < 5 THEN text
    ELSE IF WordAtEnd(text[1], "username") /\ text[3] = "secret" /\ IsDigit(text[4])
         THEN <<text[1], text[2], text[3], "5", Mask>>
                  \o SubUsername(SubSeq(text, 6, Len(text)))
         ELSE <<text[1]>> \o SubUsername(Tail(text))

\* re.sub(r"(snmp-server community)\s+\S+", r"\1 ********", text)
RECURSIVE SubCommunity(_)
SubCommunity(text) ==
    IF Len(text) < 3 THEN text
    ELSE IF WordAtEnd(text[1], "snmp-server") /\ text[2] = "community"
         THEN <<text[1], text[2], Mask>> \o SubCommunity(SubSeq(text, 4, Len(text)))
         ELSE <<text[1]>> \o SubCommunity(Tail(text))

sanitize_text(text) == SubCommunity(SubUsername(SubPassword(SubEncrypted(text))))

\* ---------------------------------------------------------------- topology
\* psu_count as found in metadata.hw_inventory: absent, an integer, or a
\* value int() rejects.
PsuAbsent == [kind |-> "absent", n |-> 0]

PsuInt(n) == [kind |-> "int", n |-> n]

PsuBad == [kind |-> "bad", n |-> 0]

\* L2_SW_01 with two access points below it (data.py, app.py's silent
\* failure scenario).
TopoTree ==
    [d \in DeviceIds |->
        CASE d = "L2_SW_01" -> [parent_id |-> "CORE_SW_01", redundancy_group |-> NoneVal,
                                psu_count |-> PsuInt(2)]
          [] d = "AP_01"    -> [parent_id |-> "L2_SW_01", redundancy_group |-> NoneVal,
                                psu_count |-> PsuAbsent]
          [] d = "AP_02"    -> [parent_id |-> "L2_SW_01", redundancy_group |-> NoneVal,
                                psu_count |-> PsuAbsent]]

\* A chain L2_SW_01 <- AP_01 <- AP_02.
TopoChain ==
    [d \in DeviceIds |->
        CASE d = "L2_SW_01" -> [parent_id |-> NoneVal, redundancy_group |-> NoneVal,
                                psu_count |-> PsuInt(1)]
          [] d = "AP_01"    -> [parent_id |-> "L2_SW_01", redundancy_group |-> NoneVal,
                                psu_count |-> PsuBad]
          [] d = "AP_02"    -> [parent_id |-> "AP_01", redundancy_group |-> NoneVal,
                                psu_count |-> PsuInt(2)]]

\* AP_02 is not a node of the topology.
TopoPartial ==
    [d \in {"L2_SW_01", "AP_01"} |->
        CASE d = "L2_SW_01" -> [parent_id |-> NoneVal, redundancy_group |-> NoneVal,
                                psu_count |-> PsuAbsent]
          [] d = "AP_01"    -> [parent_id |-> "L2_SW_01", redundancy_group |-> NoneVal,
                                psu_count |-> PsuInt(2)]]

\* The firewall pair of data.py with the core switch below the primary.
HaDeviceIds == {"FW_01_PRIMARY", "FW_01_SECONDARY", "CORE_SW_01"}

TopoHA ==
    [d \in HaDeviceIds |->
        CASE d = "FW_01_PRIMARY"   -> [parent_id |-> "WAN_ROUTER_01",
                                       redundancy_group |-> "FW_HA_GROUP",
                                       psu_count |-> PsuAbsent]
          [] d = "FW_01_SECONDARY" -> [parent_id |-> "WAN_ROUTER_01",
                                       redundancy_group |-> "FW_HA_GROUP",
                                       psu_count |-> PsuAbsent]
          [] d = "CORE_SW_01"      -> [parent_id |-> "FW_01_PRIMARY",
                                       redundancy_group |-> NoneVal,
                                       psu_count |-> PsuAbsent]]

Topologies == {TopoTree, TopoChain, TopoPartial}

get_parent_id(topo, device_id) ==
    IF device_id \in DOMAIN topo THEN topo[device_id].parent_id ELSE NoneVal

PsuDefault == 1

\* get_psu_count with a default of two power supplies.
get_psu_count_two(topo, device_id) ==
    IF device_id \in DOMAIN topo /\ topo[device_id].psu_count.kind = "int"
    THEN topo[device_id].psu_count.n
    ELSE 2

\* int(hw.get("psu_count", default)), default when that raises.
get_psu_count(topo, device_id) ==
    IF device_id \in DOMAIN topo /\ topo[device_id].psu_count.kind = "int"
    THEN topo[device_id].psu_count.n
    ELSE PsuDefault


\* ------------------------------------------------------ external judgment
\* HealthStatus values.
NORMAL == "GREEN"

WARNING == "YELLOW"

CRITICAL == "RED"

Missing == "<missing>"

Null == "<null>"

\* What one generate_content call can bring back: an exception (timeout,
\* service error, text that is not a JSON object), or a JSON object whose
\* keys may be missing and whose reason may be null.
ResponseError == [ok |-> FALSE, status |-> Missing, reason |-> Missing, impact_type |-> Missing]

ResponseCritical ==
    [ok |-> TRUE, status |-> "CRITICAL", reason |-> "uplink is down", impact_type |-> "OUTAGE"]

ResponseWarning ==
    [ok |-> TRUE, status |-> "warning", reason |-> "lag member down", impact_type |-> "DEGRADED"]

ResponseNormal ==
    [ok |-> TRUE, status |-> "NORMAL", reason |-> "no service impact", impact_type |-> "NONE"]

ResponseNoStatus ==
    [ok |-> TRUE, status |-> Missing, reason |-> "cannot tell", impact_type |-> Missing]

ResponseNullReason ==
    [ok |-> TRUE, status |-> "WARNING", reason |-> Null, impact_type |-> "UNKNOWN"]

Responses == {ResponseError, ResponseCritical, ResponseWarning, ResponseNormal,
              ResponseNoStatus, ResponseNullReason}

\* str.upper() on the status strings above.
Upper(str) == CASE str = "warning" -> "WARNING" [] OTHER -> str

\* What the environment decides for one escalated device: whether
\* genai.configure / GenerativeModel succeed, and the model's response.
ConfigureFails == [configure_ok |-> FALSE, response |-> ResponseError]

EnvChoices == {ConfigureFails} \cup {[configure_ok |-> TRUE, response |-> r] : r \in Responses}

NoEnv == [configure_ok |-> TRUE, response |-> ResponseError]

\* ensure_api_configured that drops the configuration after using it.
ensure_api_configured_forget(configured, key, env) ==
    IF configured THEN <<TRUE, FALSE>>
    ELSE IF ~key THEN <<FALSE, FALSE>>
    ELSE IF env.configure_ok THEN <<TRUE, TRUE>>
    ELSE <<FALSE, FALSE>>

\* _ensure_api_configured: <<returned value, new _api_configured>>.
ensure_api_configured(configured, key, env) ==
    IF configured THEN <<TRUE, TRUE>>
    ELSE IF ~key THEN <<FALSE, FALSE>>
    ELSE IF env.configure_ok THEN <<TRUE, TRUE>>
    ELSE <<FALSE, FALSE>>

\* ------------------------------------------------- analyze_redundancy_depth
IntStr(n) == CASE n = 0 -> "0" [] n = 1 -> "1" [] n = 2 -> "2" [] n = 3 -> "3" [] OTHER -> "n"

ReasonNoAlerts == <<"No active alerts detected.", "">>

ReasonDown == <<"Dual PSU loss / device down detected (local safety rule).", "">>

ReasonPsuRedundant(n) == <<"Single PSU failure with redundancy (local safety rule).", IntStr(n)>>

ReasonPsuSingle(n) == <<"Single PSU failure without redundancy (local safety rule).", IntStr(n)>>

ReasonNoKey == <<"API key not configured. Manual analysis required.", "">>

ReasonAiFailed == <<"AI Analysis Failed", "">>

ReasonAiDefault == <<"AI provided no reason", "">>

\* `"API key not configured" in reason`
MentionsNoKey(reason) == reason[1] = ReasonNoKey[1]

joined_alerts(alerts) == Join(<<>>, [i \in 1..Len(alerts) |-> sanitize_text(alerts[i])])

\* Rule (A): outage.
rule_down(joined) ==
    \/ Has2(joined, "Dual", "Loss")
    \/ Has2(joined, "Device", "Down")
    \/ Has2(joined, "Thermal", "Shutdown")

\* Rule (B): failure of one power supply.
psu_single_fail(joined) ==
    \/ Has2(joined, "Power", "Supply") /\ Has1(joined, "Failed") /\ ~Has1(joined, "Dual")
    \/ Has1(joined, "PSU") /\ Has1(joined, "Fail") /\ ~Has1(joined, "Dual")

\* The parsed verdict of a response (lines 326-340).
verdict_of(r) ==
    LET status_str == Upper(IF r.status = Missing THEN "CRITICAL" ELSE r.status)
        health == IF status_str \in {"GREEN", "NORMAL"} THEN NORMAL
                  ELSE IF status_str \in {"YELLOW", "WARNING"} THEN WARNING
                  ELSE CRITICAL
    IN [status |-> health,
        reason |-> IF r.reason = Missing THEN ReasonAiDefault ELSE <<r.reason, "">>,
        impact_type |-> IF r.impact_type = Missing THEN "UNKNOWN" ELSE r.impact_type]

NoAnalysis == [status |-> Missing, reason |-> <<Missing, "">>, impact_type |-> Missing]

\* local_rules with rule (B) tested before rule (A).
local_rules_psu_first(topo, device_id, alerts) ==
    LET joined == joined_alerts(alerts)
        psu_count == get_psu_count(topo, device_id)
    IN  IF alerts = <<>> THEN
            [status |-> NORMAL, reason |-> ReasonNoAlerts, impact_type |-> "NONE"]
        ELSE IF psu_single_fail(joined) THEN
            IF psu_count >= 2
            THEN [status |-> WARNING, reason |-> ReasonPsuRedundant(psu_count),
                  impact_type |-> "Hardware/Redundancy"]
            ELSE [status |-> CRITICAL, reason |-> ReasonPsuSingle(psu_count),
                  impact_type |-> "Hardware/Physical"]
        ELSE IF rule_down(joined) THEN
            [status |-> CRITICAL, reason |-> ReasonDown, impact_type |-> "Hardware/Physical"]
        ELSE NoAnalysis

\* analyze_redundancy_depth up to step (B): the analysis a local rule
\* returns, or NoAnalysis when the function goes on to step (C).
local_rules(topo, device_id, alerts) ==
    LET joined == joined_alerts(alerts)
        psu_count == get_psu_count(topo, device_id)
    IN  IF alerts = <<>> THEN
            [status |-> NORMAL, reason |-> ReasonNoAlerts, impact_type |-> "NONE"]
        ELSE IF rule_down(joined) THEN
            [status |-> CRITICAL, reason |-> ReasonDown, impact_type |-> "Hardware/Physical"]
        ELSE IF psu_single_fail(joined) THEN
            IF psu_count >= 2
            THEN [status |-> WARNING, reason |-> ReasonPsuRedundant(psu_count),
                  impact_type |-> "Hardware/Redundancy"]
            ELSE [status |-> CRITICAL, reason |-> ReasonPsuSingle(psu_count),
                  impact_type |-> "Hardware/Physical"]
        ELSE NoAnalysis

\* The JSON object lacks one of the three keys of the requested format
\* (lines 307-311), or holds a null where a string is asked for.
malformed(r) ==
    r.status = Missing \/ r.reason \in {Missing, Null} \/ r.impact_type = Missing

\* Step (C) of analyze_redundancy_depth: the analysis, the new
\* _api_configured, whether the model was called, how the judgment went
\* ("unavailable", line 267; "error", line 342; or an object that was
\* parsed, "malformed" or "answered"), and the status the object said.
external_judgment(configured, key, env) ==
    LET api == ensure_api_configured(configured, key, env)
    IN  IF ~api[1] THEN
            [analysis |-> [status |-> WARNING, reason |-> ReasonNoKey,
                           impact_type |-> "UNKNOWN"],
             configured |-> api[2], called |-> FALSE, how |-> "unavailable", said |-> Missing]
        ELSE IF ~env.response.ok THEN
            [analysis |-> [status |-> WARNING, reason |-> ReasonAiFailed,
                           impact_type |-> "AI_ERROR"],
             configured |-> api[2], called |-> TRUE, how |-> "error", said |-> Missing]
        ELSE
            [analysis |-> verdict_of(env.response), configured |-> api[2], called |-> TRUE,
             how |-> IF malformed(env.response) THEN "malformed" ELSE "answered",
             said |-> env.response.status]

\* What the environment can decide when step (C) is reached.
env_choices(configured, key) ==
    IF configured THEN {[configure_ok |-> TRUE, response |-> r] : r \in Responses}
    ELSE IF key THEN EnvChoices
    ELSE {NoEnv}

\* analyze_redundancy_depth that asks the model whatever the local rules say.
analyze_redundancy_depth_always(topo, device_id, alerts, configured, key) ==
    {external_judgment(configured, key, env) : env \in env_choices(configured, key)}

\* analyze_redundancy_depth(device_id, alerts): every result the call can
\* have, over the choices of the environment.
analyze_redundancy_depth(topo, device_id, alerts, configured, key) ==
    LET l == local_rules(topo, device_id, alerts)
    IN  IF l # NoAnalysis
        THEN {[analysis |-> l, configured |-> configured, called |-> FALSE, how |-> "local",
               said |-> Missing]}
        ELSE {external_judgment(configured, key, env) : env \in env_choices(configured, key)}

\* ------------------------------------------------------------------ analyze
Alarms == [device_id : DeviceIds, message : Messages]

\* msg_map_add without the grouping: every alarm opens an entry of its own.
msg_map_add_ungrouped(mm, a) ==
    Append(mm, [device_id |-> a.device_id, messages |-> <<a.message>>])

\* msg_map_add that drops a message the device already has.
msg_map_add_dedup(mm, a) ==
    IF \E i \in 1..Len(mm) : mm[i].device_id = a.device_id
    THEN [i \in 1..Len(mm) |->
            IF mm[i].device_id = a.device_id
               /\ \A k \in 1..Len(mm[i].messages) : mm[i].messages[k] # a.message
            THEN [mm[i] EXCEPT !.messages = Append(@, a.message)]
            ELSE mm[i]]
    ELSE Append(mm, [device_id |-> a.device_id, messages |-> <<a.message>>])

\* msg_map.setdefault(a.device_id, []).append(a.message); the dict is the
\* sequence of its items in insertion order.
msg_map_add(mm, a) ==
    IF \E i \in 1..Len(mm) : mm[i].device_id = a.device_id
    THEN [i \in 1..Len(mm) |->
            IF mm[i].device_id = a.device_id
            THEN [mm[i] EXCEPT !.messages = Append(@, a.message)]
            ELSE mm[i]]
    ELSE Append(mm, [device_id |-> a.device_id, messages |-> <<a.message>>])

RECURSIVE build_msg_map(_, _)
build_msg_map(mm, al) ==
    IF al = <<>> THEN mm ELSE build_msg_map(msg_map_add(mm, Head(al)), Tail(al))

alarmed_ids(mm) == {mm[i].device_id : i \in 1..Len(mm)}

\* parent_is_alarmed that also accepts an alarmed grandparent.
parent_is_alarmed_ancestor(topo, mm, dev) ==
    \/ get_parent_id(topo, dev) # NoneVal /\ get_parent_id(topo, dev) \in alarmed_ids(mm)
    \/ get_parent_id(topo, get_parent_id(topo, dev)) \in alarmed_ids(mm)

parent_is_alarmed(topo, mm, dev) ==
    get_parent_id(topo, dev) # NoneVal /\ get_parent_id(topo, dev) \in alarmed_ids(mm)

\* cascade_suppressed that only sees the parents whose entry comes before
\* entry i.
cascade_suppressed_seen(topo, mm, i) ==
    /\ \E k \in 1..Len(mm[i].messages) : Has1(mm[i].messages[k], "Unreachable")
    /\ \E j \in 1..(i - 1) : mm[j].device_id = get_parent_id(topo, mm[i].device_id)

\* Line 172: the device is handled by cascade suppression.
cascade_suppressed(topo, mm, i) ==
    /\ \E k \in 1..Len(mm[i].messages) : Has1(mm[i].messages[k], "Unreachable")
    /\ parent_is_alarmed(topo, mm, mm[i].device_id)

ProbSuppressed == 20

ProbNoKey == 50

ProbCritical == 90

ProbWarning == 70

ProbNormal == 30

\* confidence with the probabilities written as percentages.
confidence_percent(analysis) ==
    IF analysis.impact_type = "UNKNOWN" /\ MentionsNoKey(analysis.reason)
    THEN <<ProbNoKey * 100, 3>>
    ELSE IF analysis.status = CRITICAL THEN <<ProbCritical * 100, 1>>
    ELSE IF analysis.status = WARNING THEN <<ProbWarning * 100, 2>>
    ELSE <<ProbNormal * 100, 3>>

\* confidence without the branch for a missing API key.
confidence_status_only(analysis) ==
    IF analysis.status = CRITICAL THEN <<ProbCritical, 1>>
    ELSE IF analysis.status = WARNING THEN <<ProbWarning, 2>>
    ELSE <<ProbNormal, 3>>

\* confidence with a NORMAL verdict put in tier 2.
confidence_flat(analysis) ==
    IF analysis.impact_type = "UNKNOWN" /\ MentionsNoKey(analysis.reason)
    THEN <<ProbNoKey, 3>>
    ELSE IF analysis.status = CRITICAL THEN <<ProbCritical, 1>>
    ELSE IF analysis.status = WARNING THEN <<ProbWarning, 2>>
    ELSE <<ProbNormal, 2>>

\* Lines 187-200: <<prob, tier>> of an analysis.
confidence(analysis) ==
    IF analysis.impact_type = "UNKNOWN" /\ MentionsNoKey(analysis.reason)
    THEN <<ProbNoKey, 3>>
    ELSE IF analysis.status = CRITICAL THEN <<ProbCritical, 1>>
    ELSE IF analysis.status = WARNING THEN <<ProbWarning, 2>>
    ELSE <<ProbNormal, 3>>

\* Line 188 raises TypeError: `in` applied to a reason that is not a string.
confidence_raises(analysis) ==
    analysis.impact_type = "UNKNOWN" /\ analysis.reason[1] = Null

\* suppressed_candidate with the propagation probability 0.5.
suppressed_candidate_half(topo, entry) ==
    [id |-> entry.device_id,
     label |-> Join(<<"/">>, entry.messages),
     prob |-> ProbNoKey,
     type |-> "Network/Unreachable",
     tier |-> 3,
     reason |-> <<"Downstream unreachable due to upstream alarm",
                  get_parent_id(topo, entry.device_id)>>]

suppressed_candidate(topo, entry) ==
    [id |-> entry.device_id,
     label |-> Join(<<"/">>, entry.messages),
     prob |-> ProbSuppressed,
     type |-> "Network/Unreachable",
     tier |-> 3,
     reason |-> <<"Downstream unreachable due to upstream alarm", 
                  get_parent_id(topo, entry.device_id)>>]

analysed_candidate(entry, analysis) ==
    [id |-> entry.device_id,
     label |-> Join(<<"/">>, entry.messages),
     prob |-> confidence(analysis)[1],
     type |-> analysis.impact_type,
     tier |-> confidence(analysis)[2],
     reason |-> analysis.reason]

\* One turn of the loop of lines 170-209, for entry i of msg_map: every
\* way it can end, over the choices of the environment. raised: line 188
\* raised; the candidate is then not appended.
device_outcomes(topo, mm, key, i, configured) ==
    IF cascade_suppressed(topo, mm, i)
    THEN {[configured |-> configured, called |-> FALSE, raised |-> FALSE,
           candidate |-> suppressed_candidate(topo, mm[i]),
           verdict |-> <<>>]}
    ELSE {[configured |-> d.configured, called |-> d.called,
           raised |-> confidence_raises(d.analysis),
           candidate |-> analysed_candidate(mm[i], d.analysis),
           verdict |-> <<[id |-> mm[i].device_id, how |-> d.how, said |-> d.said,
                          status |-> d.analysis.status,
                          impact_type |-> d.analysis.impact_type]>>] :
             d \in analyze_redundancy_depth(topo, mm[i].device_id, mm[i].messages,
                                            configured, key)}

\* The loop of lines 170-209 from entry i on: every state it can end in.
\* st is the loop's state: _api_configured, the results so far, whether an
\* exception left the loop, the devices sent to the model, and what
\* analyze_redundancy_depth returned for the devices it was called for.
RECURSIVE analyze_loop(_, _, _, _, _)
analyze_loop(topo, mm, key, i, st) ==
    IF i > Len(mm) \/ st.raised THEN {st}
    ELSE UNION {analyze_loop(topo, mm, key, i + 1,
                    [configured |-> o.configured,
                     results |-> IF o.raised THEN st.results
                                 ELSE Append(st.results, o.candidate),
                     raised |-> o.raised,
                     calls |-> IF o.called THEN st.calls \cup {mm[i].device_id}
                               ELSE st.calls,
                     verdicts |-> st.verdicts \o o.verdict]) :
                  o \in device_outcomes(topo, mm, key, i, st.configured)}

\* sort_insert of a sort that is not stable: equal keys end up reversed.
sort_insert_unstable(sorted, c) ==
    LET before == {k \in 1..Len(sorted) : sorted[k].prob > c.prob}
        n == Cardinality(before)
    IN  SubSeq(sorted, 1, n) \o <<c>> \o SubSeq(sorted, n + 1, Len(sorted))

\* list.sort(key=prob, reverse=True): stable, equal keys keep their order.
sort_insert(sorted, c) ==
    LET before == {k \in 1..Len(sorted) : sorted[k].prob >= c.prob}
        n == Cardinality(before)
    IN  SubSeq(sorted, 1, n) \o <<c>> \o SubSeq(sorted, n + 1, Len(sorted))

RECURSIVE sort_by_prob(_, _)
sort_by_prob(sorted, rest) ==
    IF rest = <<>> THEN sorted ELSE sort_by_prob(sort_insert(sorted, Head(rest)), Tail(rest))

\* The candidate of an empty alarm list given as an unknown finding.
NoAlertCandidate_unknown ==
    [id |-> "SYSTEM",
     label |-> <<"No", "alerts", "detected">>,
     prob |-> ProbNormal,
     type |-> "UNKNOWN",
     tier |-> 3,
     reason |-> ReasonNoAlerts]

NoAlertCandidate ==
    [id |-> "SYSTEM",
     label |-> <<"No", "alerts", "detected">>,
     prob |-> 0,
     type |-> "Normal",
     tier |-> 0,
     reason |-> ReasonNoAlerts]

\* -------------------------------------------------------------------- state
VARIABLES topology, api_key, api_configured, alarms, msg_map, results, outcome,
          llm_calls, verdicts, prev, validated, dashboard, retry

vars == <<topology, api_key, api_configured, alarms, msg_map, results, outcome,
          llm_calls, verdicts, prev, validated, dashboard, retry>>

\* The state of the parts around the engine: the last validate_topology
\* call, the incident table, the generate_content_with_retry call.
around == <<validated, dashboard, retry>>

NoValidation == [done |-> FALSE, ok |-> TRUE, circular |-> {}, calls |-> <<>>]

NoDashboard == [items |-> <<>>, rendered |-> FALSE, failed |-> FALSE, rows |-> <<>>]

\* No exception.
NoError == [class |-> "None", text |-> <<>>]

NoRetry == [phase |-> "idle", retries |-> 0, i |-> 0, trace |-> <<>>, raised |-> NoError]

AroundIdle ==
    /\ validated = NoValidation
    /\ dashboard = NoDashboard
    /\ retry = NoRetry

NoPrev == [outcome |-> "none", results |-> <<>>]

Init ==
    /\ topology \in Topologies
    /\ api_key \in BOOLEAN
    /\ api_configured = FALSE
    /\ alarms = <<>>
    /\ msg_map = <<>>
    /\ results = <<>>
    /\ outcome = "none"
    /\ llm_calls = {}
    /\ verdicts = <<>>
    /\ prev = NoPrev
    /\ AroundIdle

\* The caller puts one more alarm on the list it is going to analyse.
Receive(n) ==
    /\ outcome = "none"
    /\ Len(alarms) < n
    /\ \E a \in Alarms : alarms' = Append(alarms, a)
    /\ UNCHANGED <<topology, api_key, api_configured, msg_map, results, outcome,
                   llm_calls, verdicts, prev, around>>

\* One call analyze(alarms).
Run ==
    /\ UNCHANGED <<topology, api_key, alarms, around>>
    /\ IF alarms = <<>>
       THEN /\ results' = <<NoAlertCandidate>>
            /\ outcome' = "returned"
            /\ msg_map' = <<>>
            /\ llm_calls' = {}
            /\ verdicts' = <<>>
            /\ UNCHANGED api_configured
       ELSE \E st \in analyze_loop(topology, build_msg_map(<<>>, alarms), api_key, 1,
                          [configured |-> api_configured, results |-> <<>>,
                           raised |-> FALSE, calls |-> {}, verdicts |-> <<>>]) :
                /\ msg_map' = build_msg_map(<<>>, alarms)
                /\ api_configured' = st.configured
                /\ llm_calls' = st.calls
                /\ verdicts' = st.verdicts
                /\ outcome' = IF st.raised THEN "raised" ELSE "returned"
                /\ results' = IF st.raised THEN <<>> ELSE sort_by_prob(<<>>, st.results)

\* analyze called on the alarm list.
Analyze ==
    /\ outcome = "none"
    /\ Run
    /\ UNCHANGED prev

\* analyze called once more with the alarm list of the previous call, on
\* the same engine.
Reanalyze ==
    /\ outcome # "none"
    /\ prev = NoPrev
    /\ Run
    /\ prev' = [outcome |-> outcome, results |-> results]

\* The caller drops the result and starts the next list; the engine stays.
NextBatch ==
    /\ outcome # "none"
    /\ alarms' = <<>>
    /\ msg_map' = <<>>
    /\ results' = <<>>
    /\ outcome' = "none"
    /\ llm_calls' = {}
    /\ verdicts' = <<>>
    /\ prev' = NoPrev
    /\ UNCHANGED <<topology, api_key, api_configured, around>>

ReceiveAlarm == Receive(MaxAlarms)

Next == ReceiveAlarm \/ Analyze

Spec == Init /\ [][Next]_vars

ReceiveShort == Receive(MaxRepeatAlarms)

NextRepeat == ReceiveShort \/ Analyze \/ Reanalyze \/ NextBatch

SpecRepeat == Init /\ [][NextRepeat]_vars

\* The engine over the firewall pair: alarms of the devices of TopoHA.
HaAlarms == [device_id : HaDeviceIds, message : Messages]

InitHA ==
    /\ topology = TopoHA
    /\ api_key \in BOOLEAN
    /\ api_configured = FALSE
    /\ alarms = <<>>
    /\ msg_map = <<>>
    /\ results = <<>>
    /\ outcome = "none"
    /\ llm_calls = {}
    /\ verdicts = <<>>
    /\ prev = NoPrev
    /\ AroundIdle

ReceiveHA ==
    /\ outcome = "none"
    /\ Len(alarms) < MaxAlarms
    /\ \E a \in HaAlarms : alarms' = Append(alarms, a)
    /\ UNCHANGED <<topology, api_key, api_configured, msg_map, results, outcome,
                   llm_calls, verdicts, prev, around>>

NextHA == ReceiveHA \/ Analyze

SpecHA == InitHA /\ [][NextHA]_vars

\* Two engines in the same environment, one given the alarm list and one
\* given the list with two neighbouring alarms of different devices
\* exchanged. The environment of one comparison: whether genai.configure
\* succeeds, and what the model answers about each device.
PermAnswers ==
    {[d \in DeviceIds |-> ResponseWarning],
     [d \in DeviceIds |-> IF d = "AP_01" THEN ResponseNullReason ELSE ResponseCritical],
     [d \in DeviceIds |-> IF d = "L2_SW_01" THEN ResponseNormal ELSE ResponseCritical]}

Worlds == [configure_ok : BOOLEAN, response : PermAnswers]

PermAlarms == [device_id : DeviceIds, message : {MsgUnreachable, MsgConnLost}]

\* The loop of lines 170-209 from entry i on, in environment world.
RECURSIVE analyze_loop_in(_, _, _, _, _, _)
analyze_loop_in(topo, mm, key, i, st, world) ==
    IF i > Len(mm) \/ st.raised THEN st
    ELSE IF cascade_suppressed(topo, mm, i) THEN
        analyze_loop_in(topo, mm, key, i + 1,
            [st EXCEPT !.results = Append(@, suppressed_candidate(topo, mm[i]))], world)
    ELSE
        LET l == local_rules(topo, mm[i].device_id, mm[i].messages)
            d == IF l # NoAnalysis
                 THEN [analysis |-> l, configured |-> st.configured, called |-> FALSE]
                 ELSE external_judgment(st.configured, key,
                          [configure_ok |-> world.configure_ok,
                           response |-> world.response[mm[i].device_id]])
            raised == confidence_raises(d.analysis)
        IN  analyze_loop_in(topo, mm, key, i + 1,
                [configured |-> d.configured,
                 results |-> IF raised THEN st.results
                             ELSE Append(st.results, analysed_candidate(mm[i], d.analysis)),
                 raised |-> raised,
                 calls |-> IF d.called THEN st.calls \cup {mm[i].device_id} ELSE st.calls],
                world)

\* analyze(al) on a fresh engine in environment world.
analyze_in(topo, al, key, world) ==
    IF al = <<>> THEN [outcome |-> "returned", results |-> <<NoAlertCandidate>>,
                       configured |-> FALSE, calls |-> {}]
    ELSE LET st == analyze_loop_in(topo, build_msg_map(<<>>, al), key, 1,
                       [configured |-> FALSE, results |-> <<>>, raised |-> FALSE,
                        calls |-> {}], world)
         IN  [outcome |-> IF st.raised THEN "raised" ELSE "returned",
              results |-> IF st.raised THEN <<>> ELSE sort_by_prob(<<>>, st.results),
              configured |-> st.configured, calls |-> st.calls]

\* al with the alarms at k and k + 1 exchanged.
Swap(al, k) ==
    [i \in 1..Len(al) |-> IF i = k THEN al[k + 1] ELSE IF i = k + 1 THEN al[k] ELSE al[i]]

\* An engine with GOOGLE_API_KEY set, over the tree or the chain.
InitKeyed ==
    /\ topology \in {TopoTree, TopoChain}
    /\ api_key = TRUE
    /\ api_configured = FALSE
    /\ alarms = <<>>
    /\ msg_map = <<>>
    /\ results = <<>>
    /\ outcome = "none"
    /\ llm_calls = {}
    /\ verdicts = <<>>
    /\ prev = NoPrev
    /\ AroundIdle

ReceivePerm ==
    /\ outcome = "none"
    /\ Len(alarms) < MaxPermAlarms
    /\ \E a \in PermAlarms : alarms' = Append(alarms, a)
    /\ UNCHANGED <<topology, api_key, api_configured, msg_map, results, outcome,
                   llm_calls, verdicts, prev, around>>

\* analyze on the alarm list and on the exchanged list; prev keeps what the
\* second engine answered and msg_map the map it built.
AnalyzeSwapped ==
    /\ outcome = "none"
    /\ \E world \in Worlds, k \in 1..(Len(alarms) - 1) :
        /\ alarms[k].device_id # alarms[k + 1].device_id
        /\ LET one == analyze_in(topology, alarms, api_key, world)
               two == analyze_in(topology, Swap(alarms, k), api_key, world)
           IN  /\ results' = one.results
               /\ outcome' = one.outcome
               /\ api_configured' = one.configured
               /\ llm_calls' = one.calls
               /\ msg_map' = build_msg_map(<<>>, Swap(alarms, k))
               /\ prev' = [outcome |-> two.outcome, results |-> two.results]
    /\ UNCHANGED <<topology, api_key, alarms, verdicts, around>>

NextPerm == ReceivePerm \/ AnalyzeSwapped

SpecPerm == InitKeyed /\ [][NextPerm]_vars

\* The engine with GOOGLE_API_KEY set over the chain, fed with one batch.
InitChain ==
    /\ topology = TopoChain
    /\ api_key = TRUE
    /\ api_configured = FALSE
    /\ alarms = <<>>
    /\ msg_map = <<>>
    /\ results = <<>>
    /\ outcome = "none"
    /\ llm_calls = {}
    /\ verdicts = <<>>
    /\ prev = NoPrev
    /\ AroundIdle

ReceiveKeyed == Receive(MaxKeyedAlarms)

NextKeyed == ReceiveKeyed \/ Analyze

SpecKeyed == InitChain /\ [][NextKeyed]_vars

\* The engine fed with outage and power-supply alarms.
OutageAlarms == [device_id : DeviceIds, message : OutageMessages]

ReceiveOutage ==
    /\ outcome = "none"
    /\ Len(alarms) < MaxOutageAlarms
    /\ \E a \in OutageAlarms : alarms' = Append(alarms, a)
    /\ UNCHANGED <<topology, api_key, api_configured, msg_map, results, outcome,
                   llm_calls, verdicts, prev, around>>

NextOutage == ReceiveOutage \/ Analyze

SpecOutage == Init /\ [][NextOutage]_vars


\* ------------------------------------------------------------ topology load
\* A value of the JSON file: the keys of a node that the loader reads.
RawNode(parent_id, redundancy_group) ==
    [parent_id |-> parent_id, redundancy_group |-> redundancy_group, psu_count |-> PsuAbsent]

DefaultIds == {"WAN_ROUTER_01", "FW_01_PRIMARY", "FW_01_SECONDARY", "CORE_SW_01",
               "L2_SW_01", "L2_SW_02", "AP_01", "AP_02", "AP_03", "AP_04"}

DEFAULT_RAW_DATA ==
    [d \in DefaultIds |->
        CASE d = "WAN_ROUTER_01"   -> RawNode(Missing, Missing)
          [] d = "FW_01_PRIMARY"   -> RawNode("WAN_ROUTER_01", "FW_HA_GROUP")
          [] d = "FW_01_SECONDARY" -> RawNode("WAN_ROUTER_01", "FW_HA_GROUP")
          [] d = "CORE_SW_01"      -> RawNode("FW_01_PRIMARY", Missing)
          [] d = "L2_SW_01"        -> RawNode("CORE_SW_01", Missing)
          [] d = "L2_SW_02"        -> RawNode("CORE_SW_01", Missing)
          [] d = "AP_01"           -> RawNode("L2_SW_01", Missing)
          [] d = "AP_02"           -> RawNode("L2_SW_01", Missing)
          [] d = "AP_03"           -> RawNode("L2_SW_02", Missing)
          [] d = "AP_04"           -> RawNode("L2_SW_02", Missing)]

\* A sound file: L2_SW_01 with the two access points.
RawSound ==
    [d \in DeviceIds |->
        IF d = "L2_SW_01" THEN RawNode(Missing, Missing) ELSE RawNode("L2_SW_01", Missing)]

\* The parent of L2_SW_01 is not a node of the file.
RawDangling ==
    [d \in DeviceIds |->
        IF d = "L2_SW_01" THEN RawNode("CORE_SW_01", Missing) ELSE RawNode("L2_SW_01", Missing)]

\* AP_01 and AP_02 are each other's parent.
RawCycle ==
    [d \in DeviceIds |->
        CASE d = "L2_SW_01" -> RawNode(Missing, Missing)
          [] d = "AP_01"    -> RawNode("AP_02", Missing)
          [] d = "AP_02"    -> RawNode("AP_01", Missing)]

\* L2_SW_01 is its own parent.
RawSelfParent == [d \in DeviceIds |-> RawNode("L2_SW_01", Missing)]

\* A node with an empty id, which NetworkNode rejects, is the parent of AP_02.
RawEmptyId ==
    [d \in DeviceIds \cup {""} |->
        CASE d = "L2_SW_01" -> RawNode(Missing, Missing)
          [] d = "AP_01"    -> RawNode("L2_SW_01", Missing)
          [] d = "AP_02"    -> RawNode("", Missing)
          [] d = ""         -> RawNode("L2_SW_01", Missing)]

RawTopologies == {RawSound, RawDangling, RawCycle, RawSelfParent, RawEmptyId}

\* What the loader finds under the file name: no file, a file json.load
\* rejects, or a JSON object.
Files == {[kind |-> "absent", data |-> <<>>], [kind |-> "unreadable", data |-> <<>>]}
             \cup {[kind |-> "json", data |-> r] : r \in RawTopologies}

\* value.get(key): None when the key is missing.
GetOrNone(v) == IF v = Missing THEN NoneVal ELSE v

\* NetworkNode(id=key, parent_id=value.get("parent_id"), ...).
NetworkNode(key, value) ==
    [id |-> key,
     parent_id |-> GetOrNone(value.parent_id),
     redundancy_group |-> GetOrNone(value.redundancy_group),
     psu_count |-> value.psu_count]

\* `if node.parent_id`: neither None nor the empty string.
Truthy(str) == str # NoneVal /\ str # ""

\* _has_circular_reference(topology[key], topology, visited); visited holds
\* the id fields of the nodes seen so far.
RECURSIVE has_circular_reference(_, _, _)
has_circular_reference(key, topo, visited) ==
    IF topo[key].id \in visited THEN TRUE
    ELSE IF ~Truthy(topo[key].parent_id) THEN FALSE
    ELSE IF topo[key].parent_id \in DOMAIN topo
         THEN has_circular_reference(topo[key].parent_id, topo, visited \cup {topo[key].id})
         ELSE FALSE

\* The number of calls of _has_circular_reference that one call from
\* validate_topology makes, itself included.
RECURSIVE circular_reference_calls(_, _, _)
circular_reference_calls(key, topo, visited) ==
    IF topo[key].id \in visited THEN 1
    ELSE IF ~Truthy(topo[key].parent_id) THEN 1
    ELSE IF topo[key].parent_id \in DOMAIN topo
         THEN 1 + circular_reference_calls(topo[key].parent_id, topo,
                                           visited \cup {topo[key].id})
         ELSE 1

\* The issues validate_topology logs.
topology_issues(topo) ==
    {<<"id mismatch", d>> : d \in {x \in DOMAIN topo : topo[x].id # x}}
      \cup {<<"invalid parent", d>> :
               d \in {x \in DOMAIN topo : Truthy(topo[x].parent_id)
                                            /\ topo[x].parent_id \notin DOMAIN topo}}
      \cup {<<"circular reference", d>> :
               d \in {x \in DOMAIN topo : has_circular_reference(x, topo, {})}}

\* validate_topology that does not look at the parents.
validate_topology_lenient(topo) ==
    {i \in topology_issues(topo) : i[1] # "invalid parent"} = {}

\* validate_topology returns whether there are no issues.
validate_topology(topo) == topology_issues(topo) = {}

\* load_topology_from_json: nodes whose construction raises are skipped
\* (line 133); the value of validate_topology is not looked at (line 139).
load_topology_from_json(file) ==
    LET raw_data == IF file.kind = "json" THEN file.data ELSE DEFAULT_RAW_DATA
        topo == [key \in {k \in DOMAIN raw_data : k # ""} |-> NetworkNode(key, raw_data[key])]
        checked == IF DOMAIN topo # {} THEN validate_topology(topo) ELSE TRUE
    IN  topo

InitLoad ==
    /\ topology = <<>>
    /\ api_key \in BOOLEAN
    /\ api_configured = FALSE
    /\ alarms = <<>>
    /\ msg_map = <<>>
    /\ results = <<>>
    /\ outcome = "unloaded"
    /\ llm_calls = {}
    /\ verdicts = <<>>
    /\ prev = NoPrev
    /\ AroundIdle

\* TOPOLOGY = load_topology_from_json(); LogicalRCA(TOPOLOGY).
Load ==
    /\ outcome = "unloaded"
    /\ \E file \in Files : topology' = load_topology_from_json(file)
    /\ outcome' = "none"
    /\ UNCHANGED <<api_key, api_configured, alarms, msg_map, results, llm_calls,
                   verdicts, prev, around>>

NextLoad == Load \/ ReceiveShort \/ Analyze

SpecLoad == InitLoad /\ [][NextLoad]_vars

\* ------------------------------------------------------ topology validation
\* validate_topology on the nodes the loader builds from the entries of a
\* JSON object (lines 118-131): the id of a node is its key, the parent id
\* a key, None, the empty string or the id of no node.
NodeKeys == {"CORE_SW_01", "L2_SW_01", "AP_01", "AP_02"}

ParentIds == NodeKeys \cup {NoneVal, "", "WAN_ROUTER_01"}

AddNode ==
    /\ outcome = "unloaded"
    /\ ~validated.done
    /\ Cardinality(DOMAIN topology) < MaxNodes
    /\ \E key \in NodeKeys \ DOMAIN topology, parent_id \in ParentIds :
        topology' = [k \in DOMAIN topology \cup {key} |->
                        IF k = key
                        THEN NetworkNode(key, RawNode(parent_id, Missing))
                        ELSE topology[k]]
    /\ UNCHANGED <<api_key, api_configured, alarms, msg_map, results, outcome,
                   llm_calls, verdicts, prev, around>>

\* validate_topology(topology), with what _has_circular_reference answered
\* for each node and how many calls it took.
Validate ==
    /\ outcome = "unloaded"
    /\ ~validated.done
    /\ validated' = [done |-> TRUE,
                     ok |-> validate_topology(topology),
                     circular |-> {k \in DOMAIN topology :
                                      has_circular_reference(k, topology, {})},
                     calls |-> [k \in DOMAIN topology |->
                                   circular_reference_calls(k, topology, {})]]
    /\ UNCHANGED <<topology, api_key, api_configured, alarms, msg_map, results, outcome,
                   llm_calls, verdicts, prev, dashboard, retry>>

InitIdle ==
    /\ topology = <<>>
    /\ api_key = FALSE
    /\ api_configured = FALSE
    /\ alarms = <<>>
    /\ msg_map = <<>>
    /\ results = <<>>
    /\ outcome = "unloaded"
    /\ llm_calls = {}
    /\ verdicts = <<>>
    /\ prev = NoPrev
    /\ AroundIdle

NextValidate == AddNode \/ Validate

SpecValidate == InitIdle /\ [][NextValidate]_vars

\* ---------------------------------------------------------------- dashboard
\* A value of an item of the uploaded JSON list: the key is absent, null, a
\* number or a string.
JAbsent == [kind |-> "absent"]

JNull == [kind |-> "null"]

JInt(n) == [kind |-> "int", n |-> n]

JStr(str) == [kind |-> "str", s |-> str]

\* `v or ...`: a non-empty string or a number other than zero.
JTruthy(v) == (v.kind = "str" /\ v.s # "") \/ (v.kind = "int" /\ v.n # 0)

AUTO_REMEDIATION_ALLOWED_IMPACT_TYPES ==
    {"Hardware/Redundancy", "Hardware/Degraded", "Software/Resource"}

AUTO_REMEDIATION_BLOCKED_IMPACT_TYPES ==
    {"Hardware/Physical", "Hardware/Critical_Multi_Fail", "Network/Unreachable",
     "Network/SilentFailure", "OUTAGE", "DeviceDown", "AI_ERROR", "UNKNOWN"}

\* str(item.get("type") or item.get("impact_type") or "UNKNOWN").
item_impact_type(item) ==
    IF JTruthy(item.type) THEN item.type.s
    ELSE IF JTruthy(item.impact_type) THEN item.impact_type.s
    ELSE "UNKNOWN"

\* should_show_auto_remediation that allows what is not blocked.
should_show_auto_remediation_open(item) ==
    item_impact_type(item) \notin AUTO_REMEDIATION_BLOCKED_IMPACT_TYPES

should_show_auto_remediation(item) ==
    IF item_impact_type(item) \in AUTO_REMEDIATION_BLOCKED_IMPACT_TYPES THEN FALSE
    ELSE IF item_impact_type(item) \in AUTO_REMEDIATION_ALLOWED_IMPACT_TYPES THEN TRUE
    ELSE FALSE

\* int(str): the strings of digits that occur below; any other string
\* makes int() raise.
IntStrings == {"1", "2"}

IntOfString(str) == CASE str = "1" -> 1 [] str = "2" -> 2

\* normalize_tier that keeps a tier of zero.
normalize_tier_keep(item) ==
    IF item.tier.kind = "absent" THEN 3
    ELSE IF item.tier.kind = "int" THEN (IF item.tier.n >= 0 THEN item.tier.n ELSE 3)
    ELSE IF item.tier.kind = "str" /\ item.tier.s \in IntStrings
         THEN IntOfString(item.tier.s)
    ELSE 3

\* normalize_tier: int(item.get("tier", 3)); int(None) and int("high")
\* raise, which gives 3.
normalize_tier(item) ==
    IF item.tier.kind = "absent" THEN 3
    ELSE IF item.tier.kind = "int" THEN (IF item.tier.n >= 1 THEN item.tier.n ELSE 3)
    ELSE IF item.tier.kind = "str" /\ item.tier.s \in IntStrings
         THEN (IF IntOfString(item.tier.s) >= 1 THEN IntOfString(item.tier.s) ELSE 3)
    ELSE 3

\* float(item.get("prob", 0.0) or 0.0) raises: a non-empty string that is
\* no number.
prob_raises(item) == item.prob.kind = "str" /\ item.prob.s # ""

\* float(item.get("prob", 0.0) or 0.0), in hundredths.
prob_value(item) == IF item.prob.kind = "int" THEN item.prob.n ELSE 0

sort_key(item) == <<normalize_tier(item), -prob_value(item)>>

\* Tuple order of Python: a < b.
KeyLess(a, b) == a[1] < b[1] \/ (a[1] = b[1] /\ a[2] < b[2])

\* One insertion of the stable sort: x goes behind every row whose key is
\* not greater.
RECURSIVE sorted_insert(_, _)
sorted_insert(rows, x) ==
    IF rows = <<>> THEN <<x>>
    ELSE IF KeyLess(sort_key(x.item), sort_key(Head(rows).item)) THEN <<x>> \o rows
    ELSE <<Head(rows)>> \o sorted_insert(Tail(rows), x)

\* sorted(results, key=sort_key), each row with the place its item had in
\* the list.
RECURSIVE sorted_by_key(_, _, _)
sorted_by_key(rows, items, pos) ==
    IF items = <<>> THEN rows
    ELSE sorted_by_key(sorted_insert(rows, [pos |-> pos, item |-> Head(items)]),
                       Tail(items), pos + 1)

\* The expanders of lines 113-126: the groups in ascending order of tier,
\* each with its rows in the order of the sorted list.
RECURSIVE tier_groups(_, _)
tier_groups(rows, tiers) ==
    IF tiers = {} THEN <<>>
    ELSE LET tier == CHOOSE t \in tiers : \A u \in tiers : t <= u
         IN  SelectSeq(rows, LAMBDA r : normalize_tier(r.item) = tier)
                 \o tier_groups(rows, tiers \ {tier})

\* render_incident_table(results): the rows shown, top to bottom, each with
\* its group and its auto-remediation flag; failed when sort_key raises.
render_incident_table(items) ==
    IF \E k \in 1..Len(items) : prob_raises(items[k])
    THEN [items |-> items, rendered |-> TRUE, failed |-> TRUE, rows |-> <<>>]
    ELSE LET rows == sorted_by_key(<<>>, items, 1)
             shown == tier_groups(rows, {normalize_tier(items[k]) : k \in 1..Len(items)})
         IN  [items |-> items, rendered |-> TRUE, failed |-> FALSE,
              rows |-> [k \in 1..Len(shown) |->
                          [pos |-> shown[k].pos,
                           item |-> shown[k].item,
                           tier |-> normalize_tier(shown[k].item),
                           auto |-> should_show_auto_remediation(shown[k].item)]]]

\* A candidate of LogicalRCA.analyze as an item of the JSON list.
CandidateItem(c) ==
    [id |-> c.id, type |-> JStr(c.type), impact_type |-> JAbsent,
     tier |-> JInt(c.tier), prob |-> JInt(c.prob)]

\* Candidates of analyze: an outage, a single failure on a redundant
\* device, a suppressed device, and the candidate of the empty alarm list.
EngineItems ==
    {CandidateItem(analysed_candidate([device_id |-> "AP_01", messages |-> <<MsgDualLoss>>],
                                      local_rules(TopoTree, "AP_01", <<MsgDualLoss>>))),
     CandidateItem(analysed_candidate([device_id |-> "L2_SW_01", messages |-> <<MsgPsuFailed>>],
                                      local_rules(TopoTree, "L2_SW_01", <<MsgPsuFailed>>))),
     CandidateItem(suppressed_candidate(TopoTree,
                                        [device_id |-> "AP_02", messages |-> <<MsgUnreachable>>])),
     CandidateItem(NoAlertCandidate)}

\* Items that differ in their type.
TypeItems ==
    {[id |-> "AP_01", type |-> JStr(t), impact_type |-> JAbsent, tier |-> JInt(3),
      prob |-> JInt(ProbNormal)] :
        t \in AUTO_REMEDIATION_ALLOWED_IMPACT_TYPES \cup AUTO_REMEDIATION_BLOCKED_IMPACT_TYPES
                  \cup {"Config/Software"}}
    \cup {[id |-> "AP_01", type |-> t, impact_type |-> i, tier |-> JInt(3),
           prob |-> JInt(ProbNormal)] :
             t \in {JAbsent, JNull, JStr("")},
             i \in {JAbsent, JStr("Hardware/Redundancy"), JStr("Hardware/Physical")}}

\* Items that differ in tier and probability.
TierItems ==
    {[id |-> "AP_02", type |-> JStr("Hardware/Physical"), impact_type |-> JAbsent,
      tier |-> t, prob |-> q] :
        t \in {JAbsent, JNull, JStr("high"), JStr("2"), JInt(0), JInt(1), JInt(2)},
        q \in {JAbsent, JInt(ProbSuppressed), JInt(ProbCritical)}}
    \cup {[id |-> "AP_02", type |-> JStr("Hardware/Physical"), impact_type |-> JAbsent,
           tier |-> JInt(1), prob |-> q] : q \in {JNull, JStr("high")}}

DashItems == EngineItems \cup TypeItems \cup TierItems

\* One more item of the uploaded list.
Upload ==
    /\ ~dashboard.rendered
    /\ Len(dashboard.items) < MaxItems
    /\ \E item \in DashItems :
        dashboard' = [dashboard EXCEPT !.items = Append(@, item)]
    /\ UNCHANGED <<topology, api_key, api_configured, alarms, msg_map, results, outcome,
                   llm_calls, verdicts, prev, validated, retry>>

Render ==
    /\ ~dashboard.rendered
    /\ dashboard' = render_incident_table(dashboard.items)
    /\ UNCHANGED <<topology, api_key, api_configured, alarms, msg_map, results, outcome,
                   llm_calls, verdicts, prev, validated, retry>>

NextDash == Upload \/ Render

SpecDash == InitIdle /\ [][NextDash]_vars

\* ------------------------------------------------ generate_content_with_retry
\* Exceptions: the class and the words of str(e).
ErrSlotTimeout == [class |-> "RuntimeError", text |-> <<"Rate", "limit", "timeout">>]

Err503 == [class |-> "ServiceUnavailable", text |-> <<"503", "Service", "Unavailable">>]

Err429 == [class |-> "ResourceExhausted", text |-> <<"429", "Resource", "exhausted">>]

ErrRate == [class |-> "Exception", text |-> <<"rate", "limit", "exceeded">>]

ErrGenerate == [class |-> "ValueError", text |-> <<"Failed", "to", "generate", "content">>]

ErrInvalid == [class |-> "InvalidArgument", text |-> <<"400", "Invalid", "argument">>]

ModelErrors == {Err503, Err429, ErrRate, ErrGenerate, ErrInvalid}

\* str.lower() on the words above.
LowerWord(w) ==
    CASE w = "Rate" -> "rate" [] w = "Service" -> "service" [] w = "Unavailable" -> "unavailable"
      [] w = "Resource" -> "resource" [] w = "Failed" -> "failed" [] w = "Invalid" -> "invalid"
      [] OTHER -> w

\* `'rate' in w` for a lower-case word of the texts above.
HoldsRate(w) == w \in {"rate", "generate"}

\* The test of line 109 with the match on 'rate' left out.
is_rate_error_429(e) == \E k \in 1..Len(e.text) : e.text[k] = "429"

\* Line 109: '429' in str(e) or 'rate' in str(e).lower().
is_rate_error(e) ==
    \/ \E k \in 1..Len(e.text) : e.text[k] = "429"
    \/ \E k \in 1..Len(e.text) : HoldsRate(LowerWord(e.text[k]))

\* What one turn of the loop meets: whether wait_for_slot grants a slot
\* and, if it does, what model.generate_content does.
AttemptOutcomes ==
    {[slot |-> FALSE, error |-> ErrSlotTimeout]}
      \cup {[slot |-> TRUE, error |-> e] : e \in ModelErrors \cup {NoError}}

\* One turn of the loop of lines 97-114 with loop index i.
attempt(r, o) ==
    LET event == [i |-> r.i, slot |-> o.slot, recorded |-> o.slot, called |-> o.slot,
                  error |-> o.error]
        again(seconds) ==
            [r EXCEPT !.i = r.i + 1,
                      !.trace = Append(@, event @@ [slept |-> seconds])]
        raise ==
            [r EXCEPT !.phase = "raised", !.raised = o.error,
                      !.trace = Append(@, event @@ [slept |-> 0])]
    IN  IF o.error = NoError THEN
            [r EXCEPT !.phase = "returned", !.trace = Append(@, event @@ [slept |-> 0])]
        ELSE IF o.error.class = "ServiceUnavailable" THEN
            IF r.i = r.retries - 1 THEN raise ELSE again(2 * (r.i + 1))
        ELSE IF is_rate_error(o.error) THEN
            IF r.i = r.retries - 1 THEN raise ELSE again(5 * (r.i + 1))
        ELSE raise

\* generate_content_with_retry(model, prompt, retries=n) is called.
StartRetry ==
    /\ retry.phase = "idle"
    /\ \E n \in 0..MaxRetries : retry' = [retry EXCEPT !.phase = "running", !.retries = n]
    /\ UNCHANGED <<topology, api_key, api_configured, alarms, msg_map, results, outcome,
                   llm_calls, verdicts, prev, validated, dashboard>>

Attempt ==
    /\ retry.phase = "running"
    /\ retry.i < retry.retries
    /\ \E o \in AttemptOutcomes : retry' = attempt(retry, o)
    /\ UNCHANGED <<topology, api_key, api_configured, alarms, msg_map, results, outcome,
                   llm_calls, verdicts, prev, validated, dashboard>>

\* Line 115: the loop has ended, return None.
LoopEnd ==
    /\ retry.phase = "running"
    /\ retry.i >= retry.retries
    /\ retry' = [retry EXCEPT !.phase = "returned None"]
    /\ UNCHANGED <<topology, api_key, api_configured, alarms, msg_map, results, outcome,
                   llm_calls, verdicts, prev, validated, dashboard>>

NextRetry == StartRetry \/ Attempt \/ LoopEnd

SpecRetry == InitIdle /\ [][NextRetry]_vars

\* --------------------------------------------------------------- properties
\* analyze has been called on the current alarm list and has returned.
Returned == outcome = "returned"

CandidateOf(d) == {i \in 1..Len(results) : results[i].id = d}

\* C1 as stated: analyze([]) returns exactly one candidate, with device id
\* "System", type "Normal" and probability 0.0.
C1_EmptyInput_System ==
    (Returned /\ alarms = <<>>) =>
        /\ Len(results) = 1
        /\ results[1].id = "System"
        /\ results[1].type = "Normal"
        /\ results[1].prob = 0

\* C1, amended: analyze([]) returns exactly one candidate, with device id
\* "SYSTEM", type "Normal" and probability 0.0.
C1_EmptyInput ==
    (Returned /\ alarms = <<>>) =>
        /\ Len(results) = 1
        /\ results[1].id = "SYSTEM"
        /\ results[1].type = "Normal"
        /\ results[1].prob = 0

C1_Witness == Returned /\ alarms = <<>> /\ Len(results) = 1

\* C2: every candidate analyze returns has a probability between 0 and 1
\* (0..100 hundredths), whichever branch produced it.
C2_ProbabilityRange ==
    \A i \in 1..Len(results) : results[i].prob >= 0 /\ results[i].prob <= 100

\* A returned list with a suppressed candidate, a local-rule candidate and
\* a candidate of a failed model call.
C2_Witness ==
    /\ Returned
    /\ \E i, j, k \in 1..Len(results) :
        /\ results[i].prob = ProbSuppressed
        /\ results[j].type = "Hardware/Physical"
        /\ results[k].type = "AI_ERROR"

\* C3: two analyze calls with the same topology and the same alarm list, one
\* after the other on the same engine, return the same candidates in the
\* same order.
C3_Deterministic ==
    prev.outcome # "none" => (outcome = prev.outcome /\ results = prev.results)

\* Position of the first alarm of device d in the alarm list.
FirstArrival(d) ==
    CHOOSE i \in 1..Len(alarms) :
        alarms[i].device_id = d /\ \A j \in 1..(i - 1) : alarms[j].device_id # d

\* C4 as stated: the returned list is ordered by probability descending,
\* then tier ascending, then device id ascending.
C4_OrderById ==
    (Returned /\ alarms # <<>>) =>
        \A i \in 1..(Len(results) - 1) :
            LET a == results[i]
                b == results[i + 1]
            IN  \/ a.prob > b.prob
                \/ a.prob = b.prob /\ a.tier < b.tier
                \/ a.prob = b.prob /\ a.tier = b.tier /\ DevRank[a.id] <= DevRank[b.id]

\* C4, amended: the returned list is ordered by probability descending, and
\* with it by tier ascending; candidates of equal probability have the same
\* tier and stand in the order in which their devices first appear in the
\* alarm list.
C4_OrderByArrival ==
    (Returned /\ alarms # <<>>) =>
        \A i \in 1..(Len(results) - 1) :
            LET a == results[i]
                b == results[i + 1]
            IN  \/ a.prob > b.prob /\ a.tier <= b.tier
                \/ a.prob = b.prob /\ a.tier = b.tier
                   /\ FirstArrival(a.id) < FirstArrival(b.id)

\* Two neighbours of equal probability that are not in device id order.
C4_Witness ==
    /\ Returned
    /\ alarms # <<>>
    /\ \E i \in 1..(Len(results) - 1) :
        /\ results[i].prob = results[i + 1].prob
        /\ DevRank[results[i].id] > DevRank[results[i + 1].id]

\* C5: analyze returns a non-empty candidate list for every alarm list and
\* every topology, and returns it rather than raising.
C5_ReturnsNonEmpty ==
    outcome # "none" => (outcome = "returned" /\ Len(results) >= 1)

\* C6: the returned list holds at most one candidate per (device id, type).
C6_OnePerDeviceAndType ==
    \A i, j \in 1..Len(results) :
        (results[i].id = results[j].id /\ results[i].type = results[j].type) => i = j

\* A returned list for a device that has two alarms of different kinds.
C6_Witness ==
    /\ Returned
    /\ \E i \in 1..Len(msg_map) :
        /\ Len(msg_map[i].messages) >= 2
        /\ msg_map[i].messages[1] # msg_map[i].messages[2]
        /\ CandidateOf(msg_map[i].device_id) # {}

\* C7: for a non-empty alarm list, every device id that occurs in an alarm
\* has a candidate in the list analyze returns.
C7_EvidenceKept ==
    (outcome # "none" /\ alarms # <<>>) =>
        \A k \in 1..Len(alarms) : CandidateOf(alarms[k].device_id) # {}

\* The joined alarm text of entry i of msg_map matches a local rule.
LocalRuleMatches(i) ==
    \/ rule_down(joined_alerts(msg_map[i].messages))
    \/ psu_single_fail(joined_alerts(msg_map[i].messages))

\* Entry i of msg_map matches no local rule.
NoLocalRule(i) == ~LocalRuleMatches(i)

MessagesOf(d) ==
    LET own == SelectSeq(alarms, LAMBDA a : a.device_id = d)
    IN  [k \in 1..Len(own) |-> own[k].message]

\* C9: msg_map has one entry per device that has an alarm and none for any
\* other device; the entry holds exactly the messages of that device's
\* alarms, in arrival order, repeated messages kept.
C9_Ingestion ==
    (outcome # "none" /\ alarms # <<>>) =>
        /\ \A d \in DeviceIds :
            (\E i \in 1..Len(msg_map) : msg_map[i].device_id = d)
                <=> (\E k \in 1..Len(alarms) : alarms[k].device_id = d)
        /\ \A i, j \in 1..Len(msg_map) :
            msg_map[i].device_id = msg_map[j].device_id => i = j
        /\ \A i \in 1..Len(msg_map) :
            msg_map[i].messages = MessagesOf(msg_map[i].device_id)

\* A device's repeated message around an alarm of another device, and a
\* device with two different messages.
C9_Witness ==
    /\ outcome # "none"
    /\ Len(alarms) = 3
    /\ alarms[1] = alarms[3]
    /\ alarms[2].device_id # alarms[1].device_id
    /\ Len(msg_map) = 2

\* A connection-lost / interface-down event.
LossOfContact(message) ==
    Has2(message, "Connection", "Lost") \/ Has2(message, "Interface", "Down")

\* The direct children of p that report a loss of contact.
LostChildren(p) ==
    {d \in DOMAIN topology :
        /\ get_parent_id(topology, d) = p
        /\ \E i \in 1..Len(msg_map) :
            /\ msg_map[i].device_id = d
            /\ \E k \in 1..Len(msg_map[i].messages) : LossOfContact(msg_map[i].messages[k])}

\* C10: when at least 2 direct children of a device report a loss of
\* contact and the device has no alarm, the output holds a candidate for the
\* device with probability >= 0.99, a silent-failure type and a non-empty
\* verification log.
C10_SilentFailure ==
    Returned =>
        \A p \in DeviceIds :
            (p \notin alarmed_ids(msg_map) /\ Cardinality(LostChildren(p)) >= 2) =>
                \E k \in CandidateOf(p) :
                    /\ results[k].prob >= 99
                    /\ results[k].type \in {"Network/Silent", "Network/SilentFailure"}
                    /\ "verification_log" \in DOMAIN results[k]

\* The candidate types that mark a device as impacted by an upstream failure.
ImpactedTypes == {"Network/Unreachable", "Network/Secondary"}

\* Device d is reported as impacted by an upstream failure.
Impacted(d) == \E k \in CandidateOf(d) : results[k].type \in ImpactedTypes

\* Device d has a candidate of probability > 0.8 (a confirmed root cause).
Confirmed(d) == \E k \in CandidateOf(d) : results[k].prob > 80

\* The other nodes of the redundancy group of d.
RedundancyPartners(d) ==
    {p \in DOMAIN topology \ {d} :
        /\ topology[d].redundancy_group # NoneVal
        /\ topology[p].redundancy_group = topology[d].redundancy_group}

\* The ancestors of d, at most n parent links up.
RECURSIVE AncestorsOf(_, _)
AncestorsOf(d, n) ==
    LET p == get_parent_id(topology, d)
    IN  IF n = 0 \/ p = NoneVal THEN {} ELSE {p} \cup AncestorsOf(p, n - 1)

Descendants(d) ==
    {x \in DOMAIN topology : d \in AncestorsOf(x, Cardinality(DOMAIN topology))}

\* C11: when a device with a candidate of probability > 0.8 is in a
\* redundancy group and a partner of the group has no candidate of
\* probability > 0.8, no descendant of the device is reported as impacted
\* by an upstream failure.
C11_RedundancySuppression ==
    Returned =>
        \A d \in DOMAIN topology :
            (/\ Confirmed(d)
             /\ \E p \in RedundancyPartners(d) : ~Confirmed(p)) =>
                \A x \in Descendants(d) : ~Impacted(x)

\* C12: when a device with a candidate of probability > 0.8 has no
\* redundancy group, or all its partners have candidates of probability
\* > 0.8, every descendant without a candidate of probability > 0.8 of its
\* own has a Network/Unreachable or Network/Secondary candidate of
\* probability exactly 0.5, also when it raised no alarm.
C12_RedundancyCascade ==
    Returned =>
        \A d \in DOMAIN topology :
            (/\ Confirmed(d)
             /\ \A p \in RedundancyPartners(d) : Confirmed(p)) =>
                \A x \in Descendants(d) :
                    ~Confirmed(x) =>
                        \E k \in CandidateOf(x) :
                            results[k].type \in ImpactedTypes /\ results[k].prob = 50

\* The alarm evidence of entry i of msg_map matches a local rule whose
\* verdict has a probability > 0.8.
OwnCritical(i) ==
    LET l == local_rules(topology, msg_map[i].device_id, msg_map[i].messages)
    IN  l # NoAnalysis /\ confidence(l)[1] > 80

\* C13: a device whose own alarm evidence yields a candidate of probability
\* > 0.8 (device down, dual power-supply loss) is never downgraded to an
\* impacted-by-upstream candidate, also when its parent is alarmed and it
\* carries an Unreachable message too.
C13_OwnCauseKept ==
    Returned =>
        \A i \in 1..Len(msg_map) :
            OwnCritical(i) =>
                /\ ~Impacted(msg_map[i].device_id)
                /\ Confirmed(msg_map[i].device_id)

\* C14: a device is marked as impacted by an upstream failure only if an
\* upstream device has a candidate of probability > 0.8 in the same
\* analysis.
C14_OnlyFromConfirmed ==
    Returned =>
        \A x \in alarmed_ids(msg_map) :
            Impacted(x) =>
                \E u \in AncestorsOf(x, Cardinality(DOMAIN topology)) : Confirmed(u)

\* The positions in results of the candidates made by cascade suppression.
SuppressedAt ==
    {k \in 1..Len(results) :
        \E i \in 1..Len(msg_map) :
            msg_map[i].device_id = results[k].id /\ cascade_suppressed(topology, msg_map, i)}

OnlyPsuFailures(i) ==
    \A k \in 1..Len(msg_map[i].messages) : msg_map[i].messages[k] = MsgPsuFailed

\* C16: the probability of a device's candidate is
\* min(base + 0.02 * alarmCount, 1.0): a device with 1 power-supply-failure
\* alarm scores 0.97, one with 3 such alarms scores 1.0.
C16_MultiplicityBonus ==
    Returned =>
        \A i \in 1..Len(msg_map) :
            OnlyPsuFailures(i) =>
                \A k \in CandidateOf(msg_map[i].device_id) :
                    /\ Len(msg_map[i].messages) = 1 => results[k].prob = 97
                    /\ Len(msg_map[i].messages) = 3 => results[k].prob = 100

\* Entry i of msg_map reports the failure of one power supply and no dual
\* loss, and is not handled by cascade suppression.
SinglePsuFailure(i) ==
    /\ \E k \in 1..Len(msg_map[i].messages) : msg_map[i].messages[k] = MsgPsuFailed
    /\ \A k \in 1..Len(msg_map[i].messages) : msg_map[i].messages[k] # MsgDualLoss
    /\ ~cascade_suppressed(topology, msg_map, i)

\* metadata.hw_inventory.psu_count of device d is an integer >= 2.
HasSparePsu(d) ==
    /\ d \in DOMAIN topology
    /\ topology[d].psu_count.kind = "int"
    /\ topology[d].psu_count.n >= 2

\* What analyze_redundancy_depth returned for device d.
VerdictOf(d) == {k \in 1..Len(verdicts) : verdicts[k].id = d}

\* C17: a single power-supply failure on a device whose psu_count is >= 2
\* is classified Hardware/Redundancy with status WARNING and a probability
\* <= 0.8; on a device whose psu_count is absent, unparsable or 1 it is
\* classified Hardware/Physical as critical.
C17_PsuRedundancy ==
    Returned =>
        \A i \in 1..Len(msg_map) :
            SinglePsuFailure(i) =>
                LET d == msg_map[i].device_id
                IN  /\ CandidateOf(d) # {} /\ VerdictOf(d) # {}
                    /\ \A k \in CandidateOf(d), v \in VerdictOf(d) :
                        IF HasSparePsu(d)
                        THEN /\ results[k].type = "Hardware/Redundancy"
                             /\ results[k].prob <= 80
                             /\ results[k].tier = 2
                             /\ verdicts[v].status = WARNING
                        ELSE /\ results[k].type = "Hardware/Physical"
                             /\ results[k].prob > 80
                             /\ results[k].tier = 1
                             /\ verdicts[v].status = CRITICAL

\* One list with a single power-supply failure on a device with two power
\* supplies and on a device without psu_count.
C17_Witness ==
    /\ Returned
    /\ \E i, j \in 1..Len(msg_map) :
        /\ SinglePsuFailure(i) /\ HasSparePsu(msg_map[i].device_id)
        /\ SinglePsuFailure(j) /\ ~HasSparePsu(msg_map[j].device_id)
        /\ \E k \in CandidateOf(msg_map[i].device_id) : results[k].type = "Hardware/Redundancy"
        /\ \E k \in CandidateOf(msg_map[j].device_id) : results[k].type = "Hardware/Physical"

\* C18: when the external judgment is unavailable or fails (no credentials,
\* an exception of the call, a malformed response), the device still gets a
\* candidate with status WARNING and impact type UNKNOWN, analyze does not
\* raise, and every other device of the batch gets its candidate.
C18_JudgmentFallback ==
    outcome # "none" =>
        /\ outcome = "returned"
        /\ \A v \in 1..Len(verdicts) :
            verdicts[v].how \in {"unavailable", "error", "malformed"} =>
                /\ verdicts[v].status = WARNING
                /\ verdicts[v].impact_type = "UNKNOWN"
                /\ \E k \in CandidateOf(verdicts[v].id) : results[k].type = "UNKNOWN"
        /\ \A d \in alarmed_ids(msg_map) : CandidateOf(d) # {}

\* Every parent id of the topology resolves to a node.
ParentsResolve ==
    \A d \in DOMAIN topology :
        get_parent_id(topology, d) \in {NoneVal} \cup DOMAIN topology

\* No node of the topology is its own ancestor.
NoParentCycle ==
    \A d \in DOMAIN topology : d \notin AncestorsOf(d, Cardinality(DOMAIN topology))

\* C19: a topology with a parent cycle or with a parent id that resolves
\* to no node is not returned by the loader, and no engine is constructed
\* and run over it.
C19_InvalidRefused ==
    outcome # "unloaded" => (ParentsResolve /\ NoParentCycle)

\* What a call analyze(alarms) can return or raise when it starts with
\* _api_configured = configured.
PossibleResults(configured) ==
    IF alarms = <<>> THEN {[raised |-> FALSE, results |-> <<NoAlertCandidate>>]}
    ELSE {[raised |-> st.raised,
           results |-> IF st.raised THEN <<>> ELSE sort_by_prob(<<>>, st.results)] :
            st \in analyze_loop(topology, build_msg_map(<<>>, alarms), api_key, 1,
                                [configured |-> configured, results |-> <<>>,
                                 raised |-> FALSE, calls |-> {}, verdicts |-> <<>>])}

\* C20 as stated: analyze leaves the topology unchanged and writes no state
\* that changes what a later analyze call on the same engine can return.
C20_NoStateWritten ==
    [][/\ topology' = topology
       /\ alarms' = alarms => PossibleResults(api_configured') = PossibleResults(api_configured)
      ]_vars

\* C20, amended: analyze leaves the topology unchanged; the only engine
\* state it writes is the lazily initialised API configuration, which a
\* call that reaches the model with an API key present sets and no call
\* resets; a call that finds it set, or finds no API key, writes nothing.
C20_LazyApiOnly ==
    [][/\ topology' = topology
       /\ api_configured' # api_configured =>
            (api_key /\ ~api_configured /\ api_configured' /\ alarms' = alarms
               /\ llm_calls' # {})
      ]_vars

\* A second call on an engine whose API configuration the first call set.
C20_Witness ==
    /\ prev.outcome # "none"
    /\ api_configured
    /\ llm_calls # {}

\* C21: during one analyze call the model is never invoked for a device
\* whose joined alarm text matches the device-down / dual-loss /
\* thermal-shutdown rule or the single-PSU-failure rule, nor for a device
\* handled by cascade suppression.
C21_ModelOnlyWhenNoRule ==
    outcome # "none" =>
        \A i \in 1..Len(msg_map) :
            (LocalRuleMatches(i) \/ cascade_suppressed(topology, msg_map, i)) =>
                msg_map[i].device_id \notin llm_calls

\* One call in which the model was asked about one device, a local rule
\* settled another and a third was suppressed.
C21_Witness ==
    /\ Returned
    /\ llm_calls # {}
    /\ \E i, j \in 1..Len(msg_map) :
        /\ LocalRuleMatches(i) /\ ~cascade_suppressed(topology, msg_map, i)
        /\ cascade_suppressed(topology, msg_map, j)

\* Some alarm of device d has a message that contains "Unreachable".
ReportsUnreachable(d) ==
    \E k \in 1..Len(alarms) :
        alarms[k].device_id = d /\ Has1(alarms[k].message, "Unreachable")

\* The direct parent of d in the topology has an alarm in the batch.
DirectParentAlarmed(d) ==
    /\ d \in DOMAIN topology
    /\ topology[d].parent_id # NoneVal
    /\ \E k \in 1..Len(alarms) : alarms[k].device_id = topology[d].parent_id

\* The parent of the parent of d has an alarm in the batch.
GrandparentAlarmed(d) ==
    /\ d \in DOMAIN topology
    /\ topology[d].parent_id \in DOMAIN topology
    /\ \E k \in 1..Len(alarms) :
        alarms[k].device_id = topology[topology[d].parent_id].parent_id

\* C22: a device gets the candidate (Network/Unreachable, 0.2, tier 3) if
\* and only if one of its messages contains "Unreachable" and its direct
\* parent has an alarm in the batch; an alarmed grandparent with a parent
\* that is not alarmed does not trigger it.
C22_CascadeSuppression ==
    Returned =>
        \A d \in DeviceIds :
            (\E k \in CandidateOf(d) :
                /\ results[k].type = "Network/Unreachable"
                /\ results[k].prob = 20
                /\ results[k].tier = 3)
              <=> (ReportsUnreachable(d) /\ DirectParentAlarmed(d))

\* A device that reports Unreachable below an alarmed grandparent and a
\* silent parent.
C22_Witness ==
    /\ Returned
    /\ \E d \in DeviceIds :
        /\ ReportsUnreachable(d)
        /\ GrandparentAlarmed(d)
        /\ ~DirectParentAlarmed(d)
        /\ CandidateOf(d) # {}

\* C26: for a non-empty alarm list every returned candidate has
\* (probability, tier) in {(0.9,1), (0.7,2), (0.5,3), (0.3,3), (0.2,3)}, a
\* higher probability never goes with a larger tier number, and the tiers
\* of the list are non-decreasing.
C26_ProbTierPairs ==
    (Returned /\ alarms # <<>>) =>
        /\ \A k \in 1..Len(results) :
            <<results[k].prob, results[k].tier>>
                \in {<<90, 1>>, <<70, 2>>, <<50, 3>>, <<30, 3>>, <<20, 3>>}
        /\ \A j, k \in 1..Len(results) :
            results[j].prob > results[k].prob => results[j].tier <= results[k].tier
        /\ \A k \in 1..(Len(results) - 1) : results[k].tier <= results[k + 1].tier

\* A returned list with a candidate in each of the three tiers.
C26_Witness ==
    /\ Returned
    /\ Len(results) = 3
    /\ results[1].tier = 1
    /\ results[2].tier = 2
    /\ results[3].tier = 3

\* C25: only a response whose status is CRITICAL (or RED) yields a
\* CRITICAL result and a candidate of probability 0.9; a parsed response
\* with a missing or unknown status does not become a tier-1 candidate.
C25_UnknownStatusNotCritical ==
    Returned =>
        \A v \in 1..Len(verdicts) :
            (/\ verdicts[v].how \in {"answered", "malformed"}
             /\ verdicts[v].said \notin {"CRITICAL", "RED"}) =>
                /\ verdicts[v].status # CRITICAL
                /\ \A k \in CandidateOf(verdicts[v].id) :
                    results[k].prob # 90 /\ results[k].tier # 1

CandidateSet(list) == {list[k] : k \in 1..Len(list)}

\* C23: exchanging alarms of different devices in the alarm list (each
\* device's own alarms keeping their order) does not change the set of
\* candidates analyze returns; a child's Unreachable is suppressed whether
\* the parent's alarm arrives before or after it.
C23_OrderIndependent ==
    prev # NoPrev =>
        /\ outcome = prev.outcome
        /\ CandidateSet(results) = CandidateSet(prev.results)

\* A child whose Unreachable arrives just before its parent's alarm in one
\* list and just after it in the other, suppressed in both.
C23_Witness ==
    /\ Returned
    /\ prev.outcome = "returned"
    /\ \E k \in 1..(Len(alarms) - 1) :
        /\ Has1(alarms[k].message, "Unreachable")
        /\ alarms[k + 1].device_id = get_parent_id(topology, alarms[k].device_id)
        /\ \E i, j \in 1..Len(msg_map) :
            /\ i < j
            /\ msg_map[i].device_id = alarms[k + 1].device_id
            /\ msg_map[j].device_id = alarms[k].device_id
        /\ \E c \in CandidateOf(alarms[k].device_id) : results[c].type = "Network/Unreachable"
        /\ \E c \in 1..Len(prev.results) :
            /\ prev.results[c].id = alarms[k].device_id
            /\ prev.results[c].type = "Network/Unreachable"

\* Where following the parent id of node k leads: the parent node, or
\* nowhere when k has no parent id or the id is that of no node.
Nowhere == "(nowhere)"

ParentStep(k) ==
    IF Truthy(topology[k].parent_id) /\ topology[k].parent_id \in DOMAIN topology
    THEN topology[k].parent_id
    ELSE Nowhere

\* The first n nodes met when following parent ids from k, k included.
RECURSIVE ParentPath(_, _)
ParentPath(k, n) ==
    IF k = Nowhere \/ n = 0 THEN <<>> ELSE <<k>> \o ParentPath(ParentStep(k), n - 1)

\* Following parent ids from k visits some node twice.
RevisitsNode(k) ==
    LET path == ParentPath(k, Cardinality(DOMAIN topology) + 1)
    IN  \E i, j \in 1..Len(path) : i < j /\ path[i] = path[j]

IdMismatch == \E k \in DOMAIN topology : topology[k].id # k

UnresolvedParent ==
    \E k \in DOMAIN topology :
        Truthy(topology[k].parent_id) /\ topology[k].parent_id \notin DOMAIN topology

C28_AllowedTypeOnly ==
    \A k \in 1..Len(dashboard.rows) :
        dashboard.rows[k].auto =>
            /\ dashboard.rows[k].item.type.kind = "str"
            /\ dashboard.rows[k].item.type.s \in AUTO_REMEDIATION_ALLOWED_IMPACT_TYPES

\* The type the policy looks at: the type of the item, or its impact_type
\* when the item has no type or an empty one, or UNKNOWN when it has neither.
EffectiveType(item) ==
    IF item.type.kind = "str" /\ item.type.s # "" THEN item.type.s
    ELSE IF item.impact_type.kind = "str" /\ item.impact_type.s # "" THEN item.impact_type.s
    ELSE "UNKNOWN"

\* C28, amended: auto-remediation is offered exactly for an item whose
\* effective type is in the allowed set; never for a blocked type, any other
\* type, or an item with neither type nor impact_type; so never for a
\* candidate that analyze gives the type Hardware/Physical or
\* Network/Unreachable.
C28_DefaultDeny ==
    \A k \in 1..Len(dashboard.rows) :
        LET item == dashboard.rows[k].item
        IN  /\ dashboard.rows[k].auto
                <=> EffectiveType(item) \in {"Hardware/Redundancy", "Hardware/Degraded",
                                             "Software/Resource"}
            /\ (item.type.kind = "str" /\ item.type.s # ""
                    /\ item.type.s \notin AUTO_REMEDIATION_ALLOWED_IMPACT_TYPES)
                 => ~dashboard.rows[k].auto
            /\ (~JTruthy(item.type) /\ ~JTruthy(item.impact_type)) => ~dashboard.rows[k].auto
            /\ (item.type = JStr("Hardware/Physical") \/ item.type = JStr("Network/Unreachable"))
                 => ~dashboard.rows[k].auto

\* A rendered list with an outage candidate of analyze, not offered, and an
\* item without type whose impact_type is allowed, offered.
C28_Witness ==
    /\ dashboard.rendered
    /\ \E j, k \in 1..Len(dashboard.rows) :
        /\ dashboard.rows[j].item \in EngineItems
        /\ dashboard.rows[j].item.type = JStr("Hardware/Physical")
        /\ ~dashboard.rows[j].auto
        /\ dashboard.rows[k].item.type = JAbsent
        /\ dashboard.rows[k].auto

\* The tier an item is shown under: its tier when that is an integer (or a
\* string of digits) that is at least 1, else 3.
ShownTier(item) ==
    IF item.tier.kind = "int" /\ item.tier.n >= 1 THEN item.tier.n
    ELSE IF item.tier = JStr("1") THEN 1
    ELSE IF item.tier = JStr("2") THEN 2
    ELSE 3

\* C30: render_incident_table shows every item once, ordered by normalized
\* tier ascending and within one tier by probability descending;
\* normalize_tier is an integer >= 1 and maps a missing, non-numeric or < 1
\* tier to 3, so the Normal candidate of tier 0 is shown in group 3 and a
\* tier-1 item before any item of tier 2 or 3 whatever the probabilities.
C30_TierThenProbability ==
    (dashboard.rendered /\ ~dashboard.failed) =>
        LET rows == dashboard.rows
        IN  /\ Len(rows) = Len(dashboard.items)
            /\ \A p \in 1..Len(dashboard.items) :
                \E k \in 1..Len(rows) :
                    rows[k].pos = p /\ rows[k].item = dashboard.items[p]
            /\ \A k \in 1..Len(rows) :
                /\ rows[k].tier = ShownTier(rows[k].item)
                /\ rows[k].tier \in Nat /\ rows[k].tier >= 1
                /\ rows[k].item = CandidateItem(NoAlertCandidate) => rows[k].tier = 3
            /\ \A j, k \in 1..Len(rows) :
                j < k =>
                    /\ rows[j].tier <= rows[k].tier
                    /\ rows[j].tier = rows[k].tier =>
                        prob_value(rows[j].item) >= prob_value(rows[k].item)
                    /\ (rows[j].tier = rows[k].tier
                          /\ prob_value(rows[j].item) = prob_value(rows[k].item))
                        => rows[j].pos < rows[k].pos
            /\ \A j, k \in 1..Len(rows) :
                (rows[j].tier = 1 /\ rows[k].tier > 1) => j < k

\* The Normal candidate of tier 0 uploaded first and shown last, behind a
\* tier-1 item of lower rank in the list.
C30_Witness ==
    /\ dashboard.rendered
    /\ ~dashboard.failed
    /\ Len(dashboard.rows) = 2
    /\ dashboard.items[1] = CandidateItem(NoAlertCandidate)
    /\ dashboard.rows[1].tier = 1
    /\ dashboard.rows[1].pos = 2
    /\ dashboard.rows[2].item = CandidateItem(NoAlertCandidate)
    /\ dashboard.rows[2].tier = 3

\* C29 as stated, its last part: a slot timeout ends the call with an error
\* and the model is not called.
C29_SlotTimeoutReported ==
    \A k \in 1..Len(retry.trace) :
        ~retry.trace[k].slot =>
            /\ ~retry.trace[k].called
            /\ k = Len(retry.trace)
            /\ retry.phase = "raised"
            /\ retry.raised = ErrSlotTimeout

\* The errors the function retries: ServiceUnavailable, and every error
\* whose text holds "429" or, in any case, "rate" (the slot timeout
\* "Rate limit timeout" and "Failed to generate content" among them).
Retried == {ErrSlotTimeout, Err503, Err429, ErrRate, ErrGenerate}

\* C29, amended: with retries >= 1 there are at most `retries` attempts and
\* the call ends by returning the first successful response or by raising,
\* never None; the model is called only after a slot was granted and the
\* request recorded; a 503 error, an error whose text holds "429" or
\* "rate", and a slot timeout (whose text holds "rate") are retried until
\* the last attempt and then re-raised, the model not being called in an
\* attempt whose slot timed out; any other error is raised at once.
C29_RetryContract ==
    retry.retries >= 1 =>
        LET trace == retry.trace
            n == Len(trace)
        IN  /\ n <= retry.retries
            /\ retry.phase # "returned None"
            /\ retry.phase = "running" => n < retry.retries
            /\ \A k \in 1..n :
                /\ trace[k].i = k - 1
                /\ trace[k].called => (trace[k].slot /\ trace[k].recorded)
                /\ ~trace[k].slot => (~trace[k].called /\ trace[k].error = ErrSlotTimeout)
                /\ k < n => (trace[k].error \in Retried /\ k < retry.retries)
                /\ (trace[k].error \in Retried /\ k < retry.retries) =>
                       (k < n \/ retry.phase = "running")
                /\ (trace[k].error \in Retried /\ k = retry.retries) =>
                       (retry.phase = "raised" /\ retry.raised = trace[k].error)
                /\ (trace[k].error # NoError /\ trace[k].error \notin Retried) =>
                       (k = n /\ retry.phase = "raised" /\ retry.raised = trace[k].error)
                /\ trace[k].error = NoError =>
                       (k = n /\ retry.phase = "returned" /\ trace[k].called)
            /\ retry.phase = "returned" => (n >= 1 /\ trace[n].error = NoError)
            /\ retry.phase = "raised" => (n >= 1 /\ trace[n].error = retry.raised)

\* A call whose first attempt met a slot timeout and whose second attempt
\* returned the model's response.
C29_Witness ==
    /\ retry.phase = "returned"
    /\ retry.retries >= 2
    /\ Len(retry.trace) = 2
    /\ ~retry.trace[1].slot
    /\ ~retry.trace[1].called
    /\ retry.trace[2].called
    /\ retry.trace[2].error = NoError

====
